---- MODULE Spec2Model ----
(***************************************************************************)
(* Model of the firestarter-demo client: the App shell (session), the      *)
(* AuthCard, the UploadCard, the AccountCard (balance observer) and the    *)
(* FilesGallery (file-list observer, preview map, delete, share), together *)
(* with the browser's window event 'fileUploaded' and the per-key durable  *)
(* storage the components read and write.                                  *)
(*                                                                         *)
(* JavaScript runs one task at a time: every action below is one handler   *)
(* run from its start (or from the await it was suspended on) to its next  *)
(* await or its end.  The remote client's calls are the suspension points; *)
(* each settles later with success or failure.                             *)
(***************************************************************************)
EXTENDS Integers, Sequences, FiniteSets, TLC

\* ---------------------------------------------------------------- bounds
MaxUploads == 2      \* uploads started and not failed, over the whole run
MaxDeletes == 2      \* delete requests in flight at once
MaxShares == 2       \* createPublicLink requests in flight at once
MaxHandles == 2      \* object URLs created over the whole run
MaxFileId == 2       \* the remote hands out file ids 1..MaxFileId
MaxStale == 1        \* reloads of unmounted galleries still running
MaxDownloads == 2    \* downloads requested by the user and in flight at once
MaxOps == 4          \* addFile/removeFile calls applied to one index in a row

\* ---------------------------------------------------------------- values
None == "none"             \* null for usernames and the balance
Nil == [nil |-> TRUE]       \* null for records
NoLink == <<>>              \* the empty shareLink
Users == {"alice", "bob"}
FileIds == 1..MaxFileId
PhotoPng == <<"P", ".", "p", "n", "g">>
NotesTxt == <<"n", ".", "t", "x", "t">>
FileNames == {PhotoPng, NotesTxt}
\* more names a user may pick: no dot, upper case, two dots, a leading dot
ProbeNames ==
  { <<"p", "n", "g">>, <<"a", ".", "P", "N", "G">>,
    <<"a", ".", "p", "n", "g", ".", "t", "x", "t">>, <<".", "p", "n", "g">>,
    <<"a", ".", "t", "x", "t">> }
Prefixes == {"firestarter_files_", "pipe_files_"}
Keys == Prefixes \X Users
Bal == "balance"
BalanceObserver == "AccountCard"     \* its listener calls loadBalance
GalleryObserver == "FilesGallery"    \* its listener calls loadFiles

\* ------------------------------------------------------- pure functions
Max(S) == CHOOSE x \in S : \A y \in S : y <= x

\* String.prototype.toLowerCase, on the letters the model's names use
ToLower(c) ==
  CASE c = "P" -> "p"
    [] c = "N" -> "n"
    [] c = "G" -> "g"
    [] OTHER -> c

\* filename.toLowerCase().split('.').pop()
Extension(filename) ==
  LET low == [i \in 1..Len(filename) |-> ToLower(filename[i])]
      dots == {i \in 1..Len(low) : low[i] = "."}
  IN  IF dots = {} THEN low ELSE SubSeq(low, Max(dots) + 1, Len(low))

ImageExtensions ==
  { <<"j", "p", "g">>, <<"j", "p", "e", "g">>, <<"p", "n", "g">>,
    <<"g", "i", "f">>, <<"w", "e", "b", "p">>, <<"s", "v", "g">> }

isImageFile(filename) == Extension(filename) \in ImageExtensions

\* mutant of UploadKey: one key for every account
UploadKeyShared(username) == <<"firestarter_files_", "alice">>

\* new PipeFileStorage(`firestarter_files_${account.username}`)
UploadKey(username) == <<"firestarter_files_", username>>

\* PipeFileStorage: one durable sequence of records per key
listFiles(st, key) == st[key]

\* mutant of addFile: the new record is put in front
addFilePrepends(st, key, rec) == [st EXCEPT ![key] = <<rec>> \o @]

addFile(st, key, rec) == [st EXCEPT ![key] = Append(@, rec)]
removeFile(st, key, fileId) ==
  LET keep == {i \in 1..Len(st[key]) : st[key][i].fileId # fileId}
      F[i \in 0..Len(st[key])] ==
        IF i = 0 THEN <<>>
        ELSE IF i \in keep THEN Append(F[i - 1], st[key][i]) ELSE F[i - 1]
  IN  [st EXCEPT ![key] = F[Len(st[key])]]

NoPreviews == [f \in FileIds |-> 0]

\* index of the first image record of list at or after i, Len(list)+1 if none
NextImage(list, i) ==
  LET imgs == {j \in i..Len(list) : isImageFile(list[j].fileName)}
  IN  IF imgs = {} THEN Len(list) + 1
      ELSE CHOOSE j \in imgs : \A k \in imgs : j <= k

Range(s) == {s[i] : i \in 1..Len(s)}
RemoveAt(s, k) == SubSeq(s, 1, k - 1) \o SubSeq(s, k + 1, Len(s))

\* ----------------------------------------------------------------- state
VARIABLES
  sdkPrefix,       \* key prefix PipeFileStorage.forAccount uses (set by the SDK build)
  persisted,       \* PipeAccountStorage: the saved account (username) or None
  store,           \* PipeFileStorage: key -> sequence of records
  appLoading,      \* App.loading
  account,         \* App.account (username) or None
  listeners,       \* window's 'fileUploaded' listeners, in registration order
  authLoading,     \* AuthCard.loading
  authError,       \* AuthCard.error
  login,           \* the login/createAccount call in flight, or None
  uploading,       \* UploadCard.uploading
  upError,         \* UploadCard.error
  uploadedFile,    \* UploadCard.uploadedFile
  uploads,         \* client.uploadFile calls in flight, in start order
  balance,         \* AccountCard.balance
  loadingBalance,  \* AccountCard.loadingBalance
  balPending,      \* client.getBalance calls of the mounted AccountCard in flight
  files,           \* FilesGallery.files
  selectedFile,    \* FilesGallery.selectedFile
  shareLink,       \* FilesGallery.shareLink
  imagePreviews,   \* FilesGallery.imagePreviews: fileId -> object URL, 0 = no entry
  reloads,         \* loadFiles runs suspended on a preview download, in start order
  deletes,         \* client.deleteFile calls in flight, in start order
  shares,          \* client.createPublicLink calls in flight, in request order
  nextHandle,      \* the next object URL URL.createObjectURL returns
  revoked,         \* object URLs passed to URL.revokeObjectURL
  broadcasts,      \* number of 'fileUploaded' events dispatched
  lastBroadcast,   \* the record whose upload dispatched the latest event
  invoked,         \* the listeners the latest dispatch called, in call order
  lastAlert,       \* text of the latest alert()
  downloading,     \* FilesGallery.downloading: a fileId, 0 = null
  downloads,       \* handleDownload runs suspended on client.downloadFile
  saved,           \* names of the files the browser saved through a.click()
  opLog            \* addFile/removeFile calls applied directly to an index

appVars == <<sdkPrefix, persisted, appLoading, account, listeners>>
authVars == <<authLoading, authError, login>>
upVars == <<uploading, upError, uploadedFile>>
balVars == <<balance, loadingBalance, balPending>>
shareVars == <<selectedFile, shareLink, shares>>
listVars == <<files, imagePreviews, reloads>>
handleVars == <<nextHandle, revoked>>
castVars == <<broadcasts, lastBroadcast, invoked>>
dlVars == <<downloading, downloads, saved>>
vars == <<appVars, authVars, store, upVars, uploads, balVars, shareVars,
          listVars, deletes, handleVars, castVars, lastAlert, dlVars, opLog>>

\* PipeFileStorage.forAccount(account)
ForAccountKey(username) == <<sdkPrefix, username>>

\* mutant of ForAccountPrefix: forAccount derives its key with another prefix
ForAccountPrefixOther == "pipe_files_"

\* the prefix of forAccount's key when the account has one index, keyed by
\* its username, that every component of the session reads and writes
ForAccountPrefix == "firestarter_files_"

Init ==
  /\ sdkPrefix \in Prefixes
  /\ persisted = None
  /\ store = [k \in Keys |-> <<>>]
  /\ appLoading = TRUE
  /\ account = None
  /\ listeners = <<>>
  /\ authLoading = FALSE /\ authError = "" /\ login = Nil
  /\ uploading = FALSE /\ upError = "" /\ uploadedFile = Nil
  /\ uploads = <<>>
  /\ balance = None /\ loadingBalance = TRUE /\ balPending = 0
  /\ files = <<>> /\ selectedFile = Nil /\ shareLink = NoLink
  /\ imagePreviews = NoPreviews
  /\ reloads = <<>> /\ deletes = <<>> /\ shares = <<>>
  /\ nextHandle = 1 /\ revoked = {}
  /\ broadcasts = 0 /\ lastBroadcast = Nil /\ invoked = <<>>
  /\ lastAlert = ""
  /\ downloading = 0 /\ downloads = <<>> /\ saved = {}
  /\ opLog = <<>>

\* ---------------------------------------------------- FilesGallery.loadFiles
\* loadFiles up to its first await: the listing is read and shown, then the
\* loop skips records that are no images; with no image left the empty
\* preview map is installed at once, otherwise the run suspends on the
\* download of the first image.
LoadFiles(live, list, rl) ==
  LET j == NextImage(list, 1)
  IN  [list |-> list,
       done |-> j > Len(list),
       reloads |-> IF j > Len(list) THEN rl
                   ELSE Append(rl, [live |-> live, list |-> list, i |-> j,
                                    previews |-> NoPreviews, fetched |-> {}])]

\* loadFiles called on the mounted gallery of user u, reading store st
GalleryLoad(u, st) ==
  LET r == LoadFiles(TRUE, listFiles(st, ForAccountKey(u)), reloads)
  IN  /\ files' = r.list
      /\ imagePreviews' = IF r.done THEN NoPreviews ELSE imagePreviews
      /\ reloads' = r.reloads

\* mutant of DispatchFileUploaded: one handler slot, the listener registered
\* last replaces the earlier ones
DispatchLastListenerOnly(st) ==
  LET called == IF listeners = <<>> THEN <<>> ELSE <<listeners[Len(listeners)]>>
  IN  /\ invoked' = called
      /\ IF BalanceObserver \in Range(called)
         THEN balPending' = balPending + 1 /\ UNCHANGED <<balance, loadingBalance>>
         ELSE UNCHANGED balVars
      /\ IF GalleryObserver \in Range(called)
         THEN GalleryLoad(account, st)
         ELSE UNCHANGED listVars

\* window.dispatchEvent(new Event('fileUploaded')): every registered listener
\* runs, in registration order, each up to its first await: AccountCard's
\* calls loadBalance, FilesGallery's calls loadFiles.
DispatchFileUploaded(st) ==
  /\ invoked' = listeners
  /\ IF BalanceObserver \in Range(listeners)
     THEN balPending' = balPending + 1 /\ UNCHANGED <<balance, loadingBalance>>
     ELSE UNCHANGED balVars
  /\ IF GalleryObserver \in Range(listeners)
     THEN GalleryLoad(account, st)
     ELSE UNCHANGED listVars

\* mutant of MountTree: the gallery's mount effect only registers its listener
MountTreeWithoutLoad(u) ==
  /\ balance' = None /\ loadingBalance' = TRUE /\ balPending' = 1
  /\ UNCHANGED listVars
  /\ listeners' = listeners \o <<BalanceObserver, GalleryObserver>>

\* the logged-in tree is mounted for user u: the mount effects run in tree
\* order, AccountCard's (loadBalance, addEventListener) before the gallery's
\* (loadFiles, addEventListener); addEventListener adds to the listeners
\* the window already has
MountTree(u) ==
  /\ balance' = None /\ loadingBalance' = TRUE /\ balPending' = 1
  /\ GalleryLoad(u, store)
  /\ listeners' = listeners \o <<BalanceObserver, GalleryObserver>>

\* ------------------------------------------------------------------- App
AppMount ==
  /\ appLoading
  /\ appLoading' = FALSE
  /\ IF persisted # None
     THEN account' = persisted /\ MountTree(persisted)
     ELSE UNCHANGED <<account, listeners, balVars, listVars>>
  /\ UNCHANGED <<sdkPrefix, persisted, authVars, store, upVars, uploads,
                 shareVars, deletes, handleVars, dlVars, opLog, castVars, lastAlert>>

\* the page is loaded again: the script starts over with the state of its
\* construction, calls in flight are dropped with the old document and its
\* object URLs are released; what PipeAccountStorage and PipeFileStorage
\* saved stays
Restart ==
  /\ ~appLoading
  /\ appLoading' = TRUE /\ account' = None /\ listeners' = <<>>
  /\ authLoading' = FALSE /\ authError' = "" /\ login' = Nil
  /\ uploading' = FALSE /\ upError' = "" /\ uploadedFile' = Nil
  /\ uploads' = <<>>
  /\ balance' = None /\ loadingBalance' = TRUE /\ balPending' = 0
  /\ files' = <<>> /\ selectedFile' = Nil /\ shareLink' = NoLink
  /\ imagePreviews' = NoPreviews
  /\ reloads' = <<>> /\ deletes' = <<>> /\ shares' = <<>>
  /\ downloading' = 0 /\ downloads' = <<>>
  /\ revoked' = 1..(nextHandle - 1)
  /\ lastAlert' = ""
  /\ UNCHANGED <<sdkPrefix, persisted, store, nextHandle, castVars, saved, opLog>>

\* ------------------------------------------------------------- AuthCard
\* mutant of AuthSubmit: the call is issued before the input is validated
AuthSubmitUnvalidated(u, validUser, validPass, creating) ==
  /\ ~appLoading /\ account = None /\ ~authLoading
  /\ authError' = IF ~validUser THEN "username"
                  ELSE IF ~validPass THEN "password" ELSE ""
  /\ authLoading' = TRUE
  /\ login' = [user |-> u, creating |-> creating]
  /\ UNCHANGED <<appVars, store, upVars, uploads, balVars, shareVars,
                 listVars, deletes, handleVars, dlVars, opLog, castVars, lastAlert>>

\* handleSubmit up to the await: validateUsername, validatePassword, then
\* onCreate / onLogin
AuthSubmit(u, validUser, validPass, creating) ==
  /\ ~appLoading /\ account = None /\ ~authLoading
  /\ IF ~validUser THEN authError' = "username" /\ UNCHANGED <<authLoading, login>>
     ELSE IF ~validPass THEN authError' = "password" /\ UNCHANGED <<authLoading, login>>
     ELSE /\ authError' = ""
          /\ authLoading' = TRUE
          /\ login' = [user |-> u, creating |-> creating]
  /\ UNCHANGED <<appVars, store, upVars, uploads, balVars, shareVars,
                 listVars, deletes, handleVars, dlVars, opLog, castVars, lastAlert>>

AuthCodes == {"USERNAME_EXISTS", "INVALID_CREDENTIALS", "UNAUTHORIZED", "NETWORK_ERROR"}

AuthMessage(code) ==
  CASE code = "USERNAME_EXISTS" -> "Username already exists"
    [] code = "INVALID_CREDENTIALS" -> "Invalid username or password"
    [] code = "UNAUTHORIZED" -> "Authentication failed"
    [] code = "NETWORK_ERROR" -> "Network error"

\* mutant of LoginSucceed: the account is set but not saved
LoginSucceedUnsaved ==
  /\ login # Nil
  /\ account' = login.user
  /\ login' = Nil /\ authLoading' = FALSE /\ authError' = ""
  /\ MountTree(login.user)
  /\ UNCHANGED <<sdkPrefix, persisted, appLoading, store, upVars, uploads, shareVars,
                 deletes, handleVars, dlVars, opLog, castVars, lastAlert>>

\* App.handleLogin / handleCreateAccount after the await, success
LoginSucceed ==
  /\ login # Nil
  /\ account' = login.user
  /\ persisted' = login.user
  /\ login' = Nil /\ authLoading' = FALSE /\ authError' = ""
  /\ MountTree(login.user)
  /\ UNCHANGED <<sdkPrefix, appLoading, store, upVars, uploads, shareVars,
                 deletes, handleVars, dlVars, opLog, castVars, lastAlert>>

\* mutant of LoginFail: the account is saved before the call settles
LoginFailPersists(code) ==
  /\ login # Nil
  /\ code \in (IF login.creating THEN AuthCodes ELSE AuthCodes \ {"USERNAME_EXISTS"})
  /\ authError' = AuthMessage(code)
  /\ authLoading' = FALSE
  /\ login' = Nil
  /\ persisted' = login.user
  /\ UNCHANGED <<sdkPrefix, appLoading, account, listeners, store, upVars, uploads,
                 balVars, shareVars, listVars, deletes, handleVars, dlVars, opLog,
                 castVars, lastAlert>>

\* the call rejects: AuthCard.handleSubmit's catch and finally
LoginFail(code) ==
  /\ login # Nil
  /\ code \in (IF login.creating THEN AuthCodes ELSE AuthCodes \ {"USERNAME_EXISTS"})
  /\ authError' = AuthMessage(code)
  /\ authLoading' = FALSE
  /\ login' = Nil
  /\ UNCHANGED <<appVars, store, upVars, uploads, balVars, shareVars,
                 listVars, deletes, handleVars, dlVars, opLog, castVars, lastAlert>>

Stale(t) == [t EXCEPT !.live = FALSE]

\* mutant of Logout: storage.clear() is left out
LogoutKeepsPersisted ==
  /\ account # None
  /\ Len(reloads) + Len(deletes) <= MaxStale
  /\ account' = None
  /\ listeners' = <<>>
  /\ uploading' = FALSE /\ upError' = "" /\ uploadedFile' = Nil
  /\ uploads' = [k \in 1..Len(uploads) |-> Stale(uploads[k])]
  /\ balance' = None /\ loadingBalance' = TRUE /\ balPending' = 0
  /\ files' = <<>> /\ selectedFile' = Nil /\ shareLink' = NoLink
  /\ imagePreviews' = NoPreviews
  /\ reloads' = [k \in 1..Len(reloads) |-> Stale(reloads[k])]
  /\ deletes' = [k \in 1..Len(deletes) |-> Stale(deletes[k])]
  /\ shares' = [k \in 1..Len(shares) |-> Stale(shares[k])]
  /\ downloading' = 0
  /\ downloads' = [k \in 1..Len(downloads) |-> Stale(downloads[k])]
  /\ UNCHANGED <<sdkPrefix, persisted, appLoading, authVars, store, handleVars,
                 saved, opLog, castVars, lastAlert>>

\* mutant of Logout: the effects' cleanups do not remove their listeners
LogoutKeepsListeners ==
  /\ account # None
  /\ Len(reloads) + Len(deletes) <= MaxStale
  /\ account' = None
  /\ persisted' = None
  /\ uploading' = FALSE /\ upError' = "" /\ uploadedFile' = Nil
  /\ uploads' = [k \in 1..Len(uploads) |-> Stale(uploads[k])]
  /\ balance' = None /\ loadingBalance' = TRUE /\ balPending' = 0
  /\ files' = <<>> /\ selectedFile' = Nil /\ shareLink' = NoLink
  /\ imagePreviews' = NoPreviews
  /\ reloads' = [k \in 1..Len(reloads) |-> Stale(reloads[k])]
  /\ deletes' = [k \in 1..Len(deletes) |-> Stale(deletes[k])]
  /\ shares' = [k \in 1..Len(shares) |-> Stale(shares[k])]
  /\ downloading' = 0
  /\ downloads' = [k \in 1..Len(downloads) |-> Stale(downloads[k])]
  /\ UNCHANGED <<sdkPrefix, listeners, appLoading, authVars, store, handleVars,
                 saved, opLog, castVars, lastAlert>>

\* mutant of Logout: the file index of the account is cleared with the session
LogoutClearsIndex ==
  /\ account # None
  /\ Len(reloads) + Len(deletes) <= MaxStale
  /\ account' = None
  /\ persisted' = None
  /\ store' = [store EXCEPT ![ForAccountKey(account)] = <<>>]
  /\ listeners' = <<>>
  /\ uploading' = FALSE /\ upError' = "" /\ uploadedFile' = Nil
  /\ uploads' = [k \in 1..Len(uploads) |-> Stale(uploads[k])]
  /\ balance' = None /\ loadingBalance' = TRUE /\ balPending' = 0
  /\ files' = <<>> /\ selectedFile' = Nil /\ shareLink' = NoLink
  /\ imagePreviews' = NoPreviews
  /\ reloads' = [k \in 1..Len(reloads) |-> Stale(reloads[k])]
  /\ deletes' = [k \in 1..Len(deletes) |-> Stale(deletes[k])]
  /\ shares' = [k \in 1..Len(shares) |-> Stale(shares[k])]
  /\ downloading' = 0
  /\ downloads' = [k \in 1..Len(downloads) |-> Stale(downloads[k])]
  /\ UNCHANGED <<sdkPrefix, appLoading, authVars, handleVars, saved, opLog,
                 castVars, lastAlert>>

\* App.handleLogout; the logged-in tree unmounts: listeners are removed,
\* component state is discarded, calls in flight run on detached
Logout ==
  /\ account # None
  /\ Len(reloads) + Len(deletes) <= MaxStale
  /\ account' = None
  /\ persisted' = None
  /\ listeners' = <<>>
  /\ uploading' = FALSE /\ upError' = "" /\ uploadedFile' = Nil
  /\ uploads' = [k \in 1..Len(uploads) |-> Stale(uploads[k])]
  /\ balance' = None /\ loadingBalance' = TRUE /\ balPending' = 0
  /\ files' = <<>> /\ selectedFile' = Nil /\ shareLink' = NoLink
  /\ imagePreviews' = NoPreviews
  /\ reloads' = [k \in 1..Len(reloads) |-> Stale(reloads[k])]
  /\ deletes' = [k \in 1..Len(deletes) |-> Stale(deletes[k])]
  /\ shares' = [k \in 1..Len(shares) |-> Stale(shares[k])]
  /\ downloading' = 0
  /\ downloads' = [k \in 1..Len(downloads) |-> Stale(downloads[k])]
  /\ UNCHANGED <<sdkPrefix, appLoading, authVars, store, handleVars, saved, opLog,
                 castVars, lastAlert>>

\* ------------------------------------------------------------ UploadCard
\* mutant of UploadStart: the file input is not disabled while uploading
UploadStartWhileUploading(name) ==
  /\ account # None
  /\ broadcasts + Len(uploads) < MaxUploads
  /\ upError' = "" /\ uploading' = TRUE /\ uploadedFile' = Nil
  /\ uploads' = Append(uploads, [live |-> TRUE, acct |-> account, name |-> name])
  /\ UNCHANGED <<appVars, authVars, store, balVars, shareVars, listVars,
                 deletes, handleVars, dlVars, opLog, castVars, lastAlert>>

\* handleFileSelect up to the await of client.uploadFile
UploadStart(name) ==
  /\ account # None /\ ~uploading
  /\ broadcasts + Len(uploads) < MaxUploads
  /\ upError' = "" /\ uploading' = TRUE /\ uploadedFile' = Nil
  /\ uploads' = Append(uploads, [live |-> TRUE, acct |-> account, name |-> name])
  /\ UNCHANGED <<appVars, authVars, store, balVars, shareVars, listVars,
                 deletes, handleVars, dlVars, opLog, castVars, lastAlert>>

\* the UploadResult of a resolved client.uploadFile
UploadResult(t, fileId) == [fileId |-> fileId, fileName |-> t.name, owner |-> t.acct]

\* mutant of StoreAtDispatch: the event is dispatched before addFile
StoreAtDispatchEarly(st, t, rec) == st

\* the storage as the listeners of the dispatched event find it:
\* fileStorage.addFile(result) has run before window.dispatchEvent
StoreAtDispatch(st, t, rec) == addFile(st, UploadKey(t.acct), rec)

\* handleFileSelect after the await, client.uploadFile resolved
UploadSucceed(k, fileId) ==
  /\ k \in 1..Len(uploads)
  /\ LET t == uploads[k]
         rec == UploadResult(t, fileId)
     IN  /\ store' = addFile(store, UploadKey(t.acct), rec)
         /\ IF t.live
            THEN uploadedFile' = rec /\ uploading' = FALSE /\ UNCHANGED upError
            ELSE UNCHANGED upVars
         /\ broadcasts' = broadcasts + 1
         /\ lastBroadcast' = rec
         /\ DispatchFileUploaded(StoreAtDispatch(store, t, rec))
  /\ uploads' = RemoveAt(uploads, k)
  /\ UNCHANGED <<appVars, authVars, shareVars, deletes, handleVars, dlVars, opLog, lastAlert>>

\* mutant of UploadFail: the record is added before the call settles
UploadFailStores(k) ==
  /\ k \in 1..Len(uploads)
  /\ IF uploads[k].live
     THEN upError' = "Upload failed" /\ uploading' = FALSE /\ UNCHANGED uploadedFile
     ELSE UNCHANGED upVars
  /\ store' = addFile(store, UploadKey(uploads[k].acct), UploadResult(uploads[k], 1))
  /\ uploads' = RemoveAt(uploads, k)
  /\ UNCHANGED <<appVars, authVars, balVars, shareVars, listVars,
                 deletes, handleVars, dlVars, opLog, castVars, lastAlert>>

\* mutant of UploadFail: the event is dispatched in the finally block
UploadFailDispatches(k) ==
  /\ k \in 1..Len(uploads)
  /\ IF uploads[k].live
     THEN upError' = "Upload failed" /\ uploading' = FALSE /\ UNCHANGED uploadedFile
     ELSE UNCHANGED upVars
  /\ uploads' = RemoveAt(uploads, k)
  /\ broadcasts' = broadcasts + 1
  /\ DispatchFileUploaded(store)
  /\ UNCHANGED <<appVars, authVars, store, shareVars, deletes, handleVars, dlVars, opLog,
                 lastBroadcast, lastAlert>>

\* handleFileSelect after the await, client.uploadFile rejected
UploadFail(k) ==
  /\ k \in 1..Len(uploads)
  /\ IF uploads[k].live
     THEN upError' = "Upload failed" /\ uploading' = FALSE /\ UNCHANGED uploadedFile
     ELSE UNCHANGED upVars
  /\ uploads' = RemoveAt(uploads, k)
  /\ UNCHANGED <<appVars, authVars, store, balVars, shareVars, listVars,
                 deletes, handleVars, dlVars, opLog, castVars, lastAlert>>

\* ----------------------------------------------------------- AccountCard
\* loadBalance after the await
BalanceSucceed ==
  /\ balPending > 0
  /\ balPending' = balPending - 1
  /\ balance' = Bal /\ loadingBalance' = FALSE
  /\ UNCHANGED <<appVars, authVars, store, upVars, uploads, shareVars,
                 listVars, deletes, handleVars, dlVars, opLog, castVars, lastAlert>>

\* mutant of BalanceFail: the catch block clears the balance
BalanceFailClears ==
  /\ balPending > 0
  /\ balPending' = balPending - 1
  /\ loadingBalance' = FALSE /\ balance' = None
  /\ UNCHANGED <<appVars, authVars, store, upVars, uploads, shareVars,
                 listVars, deletes, handleVars, dlVars, opLog, castVars, lastAlert>>

\* loadBalance after the await, client.getBalance rejected
BalanceFail ==
  /\ balPending > 0
  /\ balPending' = balPending - 1
  /\ loadingBalance' = FALSE /\ UNCHANGED balance
  /\ UNCHANGED <<appVars, authVars, store, upVars, uploads, shareVars,
                 listVars, deletes, handleVars, dlVars, opLog, castVars, lastAlert>>

\* ---------------------------------------------------------- FilesGallery
\* mutant of ReloadResume: no try/catch around one preview, a failed download
\* ends the run before setImagePreviews
ReloadResumeAborts(k, ok) ==
  /\ k \in 1..Len(reloads)
  /\ ok => nextHandle <= MaxHandles
  /\ LET t == reloads[k]
         file == t.list[t.i]
         previews == [t.previews EXCEPT ![file.fileId] = nextHandle]
         j == NextImage(t.list, t.i + 1)
     IN  /\ nextHandle' = IF ok THEN nextHandle + 1 ELSE nextHandle
         /\ IF ~ok
            THEN reloads' = RemoveAt(reloads, k) /\ UNCHANGED imagePreviews
            ELSE IF j > Len(t.list)
            THEN /\ reloads' = RemoveAt(reloads, k)
                 /\ imagePreviews' = IF t.live THEN previews ELSE imagePreviews
            ELSE /\ reloads' = [reloads EXCEPT ![k] = [t EXCEPT !.i = j, !.previews = previews,
                                                               !.fetched = t.fetched \cup {t.i}]]
                 /\ UNCHANGED imagePreviews
  /\ UNCHANGED <<appVars, authVars, store, upVars, uploads, balVars, shareVars,
                 files, deletes, revoked, dlVars, opLog, castVars, lastAlert>>

\* mutant of ReloadResume: setImagePreviews merges the new entries into the
\* map already installed
ReloadResumeMerges(k, ok) ==
  /\ k \in 1..Len(reloads)
  /\ ok => nextHandle <= MaxHandles
  /\ LET t == reloads[k]
         file == t.list[t.i]
         previews == IF ok THEN [t.previews EXCEPT ![file.fileId] = nextHandle]
                     ELSE t.previews
         fetched == IF ok THEN t.fetched \cup {t.i} ELSE t.fetched
         j == NextImage(t.list, t.i + 1)
     IN  /\ nextHandle' = IF ok THEN nextHandle + 1 ELSE nextHandle
         /\ IF j > Len(t.list)
            THEN /\ reloads' = RemoveAt(reloads, k)
                 /\ imagePreviews' =
                      IF t.live
                      THEN [f \in FileIds |-> IF previews[f] # 0 THEN previews[f]
                                              ELSE imagePreviews[f]]
                      ELSE imagePreviews
            ELSE /\ reloads' = [reloads EXCEPT ![k] = [t EXCEPT !.i = j, !.previews = previews,
                                                               !.fetched = fetched]]
                 /\ UNCHANGED imagePreviews
  /\ UNCHANGED <<appVars, authVars, store, upVars, uploads, balVars, shareVars,
                 files, deletes, revoked, dlVars, opLog, castVars, lastAlert>>

\* loadFiles resumed after the await of one preview download: on success an
\* object URL is created and entered under the record's fileId, on failure
\* the record is skipped; the loop runs on to the next image, and after the
\* last one setImagePreviews installs the map built by this run.
ReloadResume(k, ok) ==
  /\ k \in 1..Len(reloads)
  /\ ok => nextHandle <= MaxHandles
  /\ LET t == reloads[k]
         file == t.list[t.i]
         previews == IF ok THEN [t.previews EXCEPT ![file.fileId] = nextHandle]
                     ELSE t.previews
         fetched == IF ok THEN t.fetched \cup {t.i} ELSE t.fetched
         j == NextImage(t.list, t.i + 1)
     IN  /\ nextHandle' = IF ok THEN nextHandle + 1 ELSE nextHandle
         /\ IF j > Len(t.list)
            THEN /\ reloads' = RemoveAt(reloads, k)
                 /\ imagePreviews' = IF t.live THEN previews ELSE imagePreviews
            ELSE /\ reloads' = [reloads EXCEPT ![k] = [t EXCEPT !.i = j, !.previews = previews,
                                                               !.fetched = fetched]]
                 /\ UNCHANGED imagePreviews
  /\ UNCHANGED <<appVars, authVars, store, upVars, uploads, balVars, shareVars,
                 files, deletes, revoked, dlVars, opLog, castVars, lastAlert>>

\* handleDelete up to the await of client.deleteFile, the confirm() accepted;
\* the handler closes over the imagePreviews of the render it was created in
DeleteClick(i) ==
  /\ account # None /\ i \in 1..Len(files)
  /\ Len(deletes) < MaxDeletes
  /\ deletes' = Append(deletes, [live |-> TRUE, acct |-> account, file |-> files[i],
                                 closure |-> imagePreviews[files[i].fileId]])
  /\ UNCHANGED <<appVars, authVars, store, upVars, uploads, balVars, shareVars,
                 listVars, handleVars, dlVars, opLog, castVars, lastAlert>>

\* mutant of DeleteSucceed: the index is written back from the list the
\* gallery shows, less the deleted record
DeleteSucceedRewrites(k) ==
  /\ k \in 1..Len(deletes)
  /\ LET t == deletes[k]
         key == ForAccountKey(t.acct)
         keep == {i \in 1..Len(files) : files[i].fileId # t.file.fileId}
         F[i \in 0..Len(files)] ==
           IF i = 0 THEN <<>>
           ELSE IF i \in keep THEN Append(F[i - 1], files[i]) ELSE F[i - 1]
         st == [store EXCEPT ![key] = F[Len(files)]]
     IN  /\ store' = st
         /\ revoked' = IF t.closure # 0 THEN revoked \cup {t.closure} ELSE revoked
         /\ IF t.live
            THEN GalleryLoad(t.acct, st)
            ELSE /\ reloads' = LoadFiles(FALSE, listFiles(st, key), reloads).reloads
                 /\ UNCHANGED <<files, imagePreviews>>
  /\ deletes' = RemoveAt(deletes, k)
  /\ UNCHANGED <<appVars, authVars, upVars, uploads, balVars, shareVars,
                 nextHandle, dlVars, opLog, castVars, lastAlert>>

\* handleDelete after the await, client.deleteFile resolved
DeleteSucceed(k) ==
  /\ k \in 1..Len(deletes)
  /\ LET t == deletes[k]
         st == removeFile(store, ForAccountKey(t.acct), t.file.fileId)
     IN  /\ store' = st
         /\ revoked' = IF t.closure # 0 THEN revoked \cup {t.closure} ELSE revoked
         /\ IF t.live
            THEN GalleryLoad(t.acct, st)
            ELSE /\ reloads' = LoadFiles(FALSE, listFiles(st, ForAccountKey(t.acct)), reloads).reloads
                 /\ UNCHANGED <<files, imagePreviews>>
  /\ deletes' = RemoveAt(deletes, k)
  /\ UNCHANGED <<appVars, authVars, upVars, uploads, balVars, shareVars,
                 nextHandle, dlVars, opLog, castVars, lastAlert>>

\* mutant of DeleteFail: the record is removed before the call settles
DeleteFailRemoves(k) ==
  /\ k \in 1..Len(deletes)
  /\ lastAlert' = "Delete failed"
  /\ store' = removeFile(store, ForAccountKey(deletes[k].acct), deletes[k].file.fileId)
  /\ deletes' = RemoveAt(deletes, k)
  /\ UNCHANGED <<appVars, authVars, upVars, uploads, balVars, shareVars,
                 listVars, handleVars, dlVars, opLog, castVars>>

\* handleDelete after the await, client.deleteFile rejected
DeleteFail(k) ==
  /\ k \in 1..Len(deletes)
  /\ lastAlert' = "Delete failed"
  /\ deletes' = RemoveAt(deletes, k)
  /\ UNCHANGED <<appVars, authVars, store, upVars, uploads, balVars, shareVars,
                 listVars, handleVars, dlVars, opLog, castVars>>

\* publicLink.shareUrl of client.createPublicLink(account, fileName)
ShareUrl(fileName) == <<"share", fileName>>

\* generateShareLink up to the await of client.createPublicLink
ShareClick(i) ==
  /\ account # None /\ i \in 1..Len(files)
  /\ Len(shares) < MaxShares
  /\ selectedFile' = files[i]
  /\ shares' = Append(shares, [live |-> TRUE, file |-> files[i]])
  /\ UNCHANGED <<appVars, authVars, store, upVars, uploads, balVars, shareLink,
                 listVars, deletes, handleVars, dlVars, opLog, castVars, lastAlert>>

\* generateShareLink after the await, resolved
ShareSucceed(k) ==
  /\ k \in 1..Len(shares)
  /\ shareLink' = IF shares[k].live THEN ShareUrl(shares[k].file.fileName) ELSE shareLink
  /\ shares' = RemoveAt(shares, k)
  /\ UNCHANGED <<appVars, authVars, store, upVars, uploads, balVars, selectedFile,
                 listVars, deletes, handleVars, dlVars, opLog, castVars, lastAlert>>

\* generateShareLink after the await, rejected
ShareFail(k) ==
  /\ k \in 1..Len(shares)
  /\ lastAlert' = "Failed to create share link"
  /\ selectedFile' = IF shares[k].live THEN Nil ELSE selectedFile
  /\ shares' = RemoveAt(shares, k)
  /\ UNCHANGED <<appVars, authVars, store, upVars, uploads, balVars, shareLink,
                 listVars, deletes, handleVars, dlVars, opLog, castVars>>

\* the share modal's close buttons
CloseShare ==
  /\ account # None /\ selectedFile # Nil /\ shareLink # NoLink
  /\ selectedFile' = Nil /\ shareLink' = NoLink
  /\ UNCHANGED <<appVars, authVars, store, upVars, uploads, balVars, shares,
                 listVars, deletes, handleVars, dlVars, opLog, castVars, lastAlert>>

\* handleDownload up to the await of client.downloadFile; the button of a
\* file is disabled while downloading holds that file's id
DownloadClick(i) ==
  /\ account # None /\ i \in 1..Len(files)
  /\ downloading # files[i].fileId
  /\ Len(downloads) < MaxDownloads
  /\ downloading' = files[i].fileId
  /\ downloads' = Append(downloads, [live |-> TRUE, file |-> files[i]])
  /\ UNCHANGED <<appVars, authVars, store, upVars, uploads, balVars, shareVars,
                 listVars, deletes, handleVars, castVars, lastAlert, saved, opLog>>

\* mutant of DownloadSucceed: the object URL is kept as the file's preview
DownloadSucceedCaches(k) ==
  /\ k \in 1..Len(downloads)
  /\ nextHandle <= MaxHandles
  /\ nextHandle' = nextHandle + 1
  /\ imagePreviews' = [imagePreviews EXCEPT ![downloads[k].file.fileId] = nextHandle]
  /\ saved' = saved \cup {downloads[k].file.fileName}
  /\ downloading' = IF downloads[k].live THEN 0 ELSE downloading
  /\ downloads' = RemoveAt(downloads, k)
  /\ UNCHANGED <<appVars, authVars, store, upVars, uploads, balVars, shareVars,
                 files, reloads, deletes, revoked, castVars, lastAlert, opLog>>

\* handleDownload after the await, client.downloadFile resolved: an object
\* URL is created for the blob, an anchor is clicked (the browser saves the
\* file), the URL is revoked; finally setDownloading(null)
DownloadSucceed(k) ==
  /\ k \in 1..Len(downloads)
  /\ nextHandle <= MaxHandles
  /\ nextHandle' = nextHandle + 1
  /\ revoked' = revoked \cup {nextHandle}
  /\ saved' = saved \cup {downloads[k].file.fileName}
  /\ downloading' = IF downloads[k].live THEN 0 ELSE downloading
  /\ downloads' = RemoveAt(downloads, k)
  /\ UNCHANGED <<appVars, authVars, store, upVars, uploads, balVars, shareVars,
                 listVars, deletes, castVars, lastAlert, opLog>>

\* handleDownload after the await, client.downloadFile rejected: the alert,
\* finally setDownloading(null)
DownloadFail(k) ==
  /\ k \in 1..Len(downloads)
  /\ lastAlert' = "Download failed"
  /\ downloading' = IF downloads[k].live THEN 0 ELSE downloading
  /\ downloads' = RemoveAt(downloads, k)
  /\ UNCHANGED <<appVars, authVars, store, upVars, uploads, balVars, shareVars,
                 listVars, deletes, handleVars, castVars, saved, opLog>>

\* ------------------------------------------------------------------ Spec
\* login and logout with well-formed credentials
SessionNext ==
  \/ AppMount
  \/ \E u \in Users, c \in BOOLEAN : AuthSubmit(u, TRUE, TRUE, c)
  \/ LoginSucceed
  \/ Logout

UploadNext ==
  \/ \E name \in FileNames : UploadStart(name)
  \/ \E k \in 1..Len(uploads), f \in FileIds : UploadSucceed(k, f)
  \/ \E k \in 1..Len(uploads) : UploadFail(k)

BalanceNext ==
  \/ BalanceSucceed
  \/ BalanceFail

GalleryNext ==
  \/ \E k \in 1..Len(reloads), ok \in BOOLEAN : ReloadResume(k, ok)
  \/ \E i \in 1..Len(files) : DeleteClick(i)
  \/ \E k \in 1..Len(deletes) : DeleteSucceed(k)
  \/ \E k \in 1..Len(deletes) : DeleteFail(k)

ShareNext ==
  \/ \E i \in 1..Len(files) : ShareClick(i)
  \/ \E k \in 1..Len(shares) : ShareSucceed(k)
  \/ \E k \in 1..Len(shares) : ShareFail(k)
  \/ CloseShare

\* the index, the broadcast and the reloads it starts; the getBalance calls
\* the balance observer issues stay pending
Next == SessionNext \/ UploadNext \/ GalleryNext

\* the balance observer: one user, uploads, and the getBalance calls settle
BalanceSpecNext ==
  \/ AppMount
  \/ AuthSubmit("alice", TRUE, TRUE, FALSE)
  \/ LoginSucceed
  \/ Logout
  \/ UploadNext
  \/ BalanceNext

Spec == Init /\ [][Next]_vars

SpecBalance == Init /\ [][BalanceSpecNext]_vars

\* the share modal over a listing: one user, uploads, previews, share links
ShareSpecNext ==
  \/ AppMount
  \/ AuthSubmit("alice", TRUE, TRUE, FALSE)
  \/ LoginSucceed
  \/ Logout
  \/ \E name \in FileNames : UploadStart(name)
  \/ \E k \in 1..Len(uploads), f \in FileIds : UploadSucceed(k, f)
  \/ \E k \in 1..Len(reloads), ok \in BOOLEAN : ReloadResume(k, ok)
  \/ ShareNext

SpecShare == Init /\ [][ShareSpecNext]_vars

DownloadNext ==
  \/ \E i \in 1..Len(files) : DownloadClick(i)
  \/ \E k \in 1..Len(downloads) : DownloadSucceed(k)
  \/ \E k \in 1..Len(downloads) : DownloadFail(k)

\* downloads over a listing: one user, uploads, previews, downloads
DownloadSpecNext ==
  \/ AppMount
  \/ AuthSubmit("alice", TRUE, TRUE, FALSE)
  \/ LoginSucceed
  \/ Logout
  \/ \E name \in FileNames : UploadStart(name)
  \/ \E k \in 1..Len(uploads), f \in FileIds : UploadSucceed(k, f)
  \/ \E k \in 1..Len(reloads), ok \in BOOLEAN : ReloadResume(k, ok)
  \/ DownloadNext

SpecDownload == Init /\ [][DownloadSpecNext]_vars

\* the session: every input of the auth form, both outcomes of the call,
\* logout, page reloads, and uploads in between
AuthSpecNext ==
  \/ AppMount
  \/ \E u \in Users, vu \in BOOLEAN, vp \in BOOLEAN, c \in BOOLEAN : AuthSubmit(u, vu, vp, c)
  \/ LoginSucceed
  \/ \E code \in AuthCodes : LoginFail(code)
  \/ Logout
  \/ Restart
  \/ UploadNext

SpecAuth == Init /\ [][AuthSpecNext]_vars

\* uploads and deletes of one user over sessions: the index, the listing
\* and the previews
DeleteSpecNext ==
  \/ AppMount
  \/ AuthSubmit("alice", TRUE, TRUE, FALSE)
  \/ LoginSucceed
  \/ Logout
  \/ \E name \in FileNames : UploadStart(name)
  \/ \E k \in 1..Len(uploads), f \in FileIds : UploadSucceed(k, f)
  \/ GalleryNext

SpecDelete == Init /\ [][DeleteSpecNext]_vars

\* one user uploads files of any of the probe names; previews are loaded
NamesSpecNext ==
  \/ AppMount
  \/ AuthSubmit("alice", TRUE, TRUE, FALSE)
  \/ LoginSucceed
  \/ \E name \in ProbeNames : UploadStart(name)
  \/ \E k \in 1..Len(uploads), f \in FileIds : UploadSucceed(k, f)
  \/ \E k \in 1..Len(reloads), ok \in BOOLEAN : ReloadResume(k, ok)

SpecNames == Init /\ [][NamesSpecNext]_vars

\* both observers at work: one user, uploads, the getBalance calls and the
\* preview downloads settle either way
ObserversSpecNext ==
  \/ BalanceSpecNext
  \/ \E k \in 1..Len(reloads), ok \in BOOLEAN : ReloadResume(k, ok)

SpecObservers == Init /\ [][ObserversSpecNext]_vars

\* ------------------------------------------------- the index on its own
\* the calls the components make on one account's PipeFileStorage, applied
\* in any order: UploadCard's fileStorage.addFile(result) with a record whose
\* id the index does not hold, the gallery's fileStorage.removeFile(fileId)
\* with any id
IndexKey == UploadKey("alice")

IndexIds == {listFiles(store, IndexKey)[i].fileId : i \in 1..Len(listFiles(store, IndexKey))}

IndexAdd(rec) ==
  /\ Len(opLog) < MaxOps
  /\ rec.fileId \notin IndexIds
  /\ store' = addFile(store, IndexKey, rec)
  /\ opLog' = Append(opLog, [op |-> "add", rec |-> rec, fileId |-> rec.fileId])
  /\ UNCHANGED <<appVars, authVars, upVars, uploads, balVars, shareVars, listVars,
                 deletes, handleVars, castVars, lastAlert, dlVars>>

IndexRemove(fileId) ==
  /\ Len(opLog) < MaxOps
  /\ store' = removeFile(store, IndexKey, fileId)
  /\ opLog' = Append(opLog, [op |-> "remove", rec |-> Nil, fileId |-> fileId])
  /\ UNCHANGED <<appVars, authVars, upVars, uploads, balVars, shareVars, listVars,
                 deletes, handleVars, castVars, lastAlert, dlVars>>

IndexNext ==
  \/ \E f \in FileIds, name \in FileNames :
       IndexAdd([fileId |-> f, fileName |-> name, owner |-> "alice"])
  \/ \E f \in FileIds : IndexRemove(f)

SpecIndex == Init /\ [][IndexNext]_vars

\* new accounts are created and upload files, and every preview download
\* succeeds; the gallery's storage is the account's one index
ScenarioInit == Init /\ sdkPrefix = ForAccountPrefix

ScenarioNext ==
  \/ AppMount
  \/ \E u \in Users : AuthSubmit(u, TRUE, TRUE, TRUE)
  \/ LoginSucceed
  \/ Logout
  \/ \E name \in FileNames : UploadStart(name)
  \/ \E k \in 1..Len(uploads), f \in FileIds : UploadSucceed(k, f)
  \/ \E k \in 1..Len(reloads) : ReloadResume(k, TRUE)

SpecScenario == ScenarioInit /\ [][ScenarioNext]_vars

\* page reloads between uploads and deletes of one user; the gallery's
\* storage is the account's one index
RestartSpecNext ==
  \/ AppMount
  \/ AuthSubmit("alice", TRUE, TRUE, FALSE)
  \/ LoginSucceed
  \/ Restart
  \/ \E name \in FileNames : UploadStart(name)
  \/ \E k \in 1..Len(uploads), f \in FileIds : UploadSucceed(k, f)
  \/ \E k \in 1..Len(reloads), ok \in BOOLEAN : ReloadResume(k, ok)
  \/ \E i \in 1..Len(files) : DeleteClick(i)
  \/ \E k \in 1..Len(deletes) : DeleteSucceed(k)

SpecRestart == ScenarioInit /\ [][RestartSpecNext]_vars

\* ---------------------------------------------------------------- claims
Handles == 1..(nextHandle - 1)
Live(h) == h # 0 /\ h \notin revoked
Held(previews) == {previews[f] : f \in FileIds} \ {0}
ActiveIndex == listFiles(store, ForAccountKey(account))

\* C1: when an upload's broadcast reaches the file-list observer of the
\* account the record was stored for, the listing that observer reads at the
\* start of its reload already contains the record.
C1_MutateThenBroadcast ==
  [][(/\ broadcasts' = broadcasts + 1
      /\ account' # None
      /\ ForAccountKey(account') = UploadKey(lastBroadcast'.owner))
     => lastBroadcast' \in Range(files')]_vars

C1_Witness ==
  /\ broadcasts > 0 /\ account # None
  /\ lastBroadcast \in Range(files)
  /\ lastBroadcast \in Range(store[UploadKey(lastBroadcast.owner)])

\* C2: a successful delete emits the broadcast, so the balance observer
\* starts a reload as well as the file-list observer.
C2_DeleteBroadcasts ==
  [][\A k \in 1..Len(deletes) :
       (DeleteSucceed(k) /\ deletes[k].live)
       => (broadcasts' = broadcasts + 1 /\ balPending' = balPending + 1)]_vars

\* C3: the file list shown under an account holds only records that were
\* uploaded under that account.
C3_Scoping ==
  account # None => \A r \in Range(files) : r.owner = account

C3_Witness ==
  /\ account = "bob" /\ files # <<>>
  /\ lastBroadcast # Nil /\ lastBroadcast.owner = "alice"
  /\ ForAccountKey("alice") = UploadKey("alice")

\* C4: when a reload installs its preview map, every handle of the map it
\* replaces has been released, so no created handle is dropped unreleased.
C4_PreviousGenerationReleased ==
  [][(account # None /\ account' = account /\ imagePreviews' # imagePreviews)
     => \A h \in Held(imagePreviews) \ Held(imagePreviews') : h \in revoked']_vars

\* C5: every key of the preview map that holds a live handle is the fileId
\* of a record listed in the active account's index.
C5_LiveHandlesListed ==
  \A f \in FileIds :
    Live(imagePreviews[f]) =>
      account # None /\ \E r \in Range(ActiveIndex) : r.fileId = f

\* C6: a successful delete releases the handle the preview map holds for the
\* deleted fileId, whatever reloads completed while the delete was in flight.
C6_DeleteReleases ==
  [][\A k \in 1..Len(deletes) :
       (DeleteSucceed(k) /\ deletes[k].live)
       => LET h == imagePreviews[deletes[k].file.fileId]
          IN  h # 0 => h \in revoked']_vars

\* C7: a failed upload leaves every index and the number of emitted
\* broadcasts as they were, and starts no reload.
C7_FailedUploadNoEffect ==
  [][\A k \in 1..Len(uploads) :
       UploadFail(k) => UNCHANGED <<store, broadcasts, lastBroadcast, listVars, balPending>>]_vars

C7_Witness == upError = "Upload failed" /\ ~uploading /\ account # None

\* C8: a failed delete removes no record, releases and drops no handle,
\* starts no reload and emits no broadcast.
C8_FailedDeleteNoEffect ==
  [][\A k \in 1..Len(deletes) :
       DeleteFail(k) => UNCHANGED <<store, files, imagePreviews, reloads, revoked,
                                    broadcasts, balPending>>]_vars

C8_Witness ==
  /\ lastAlert = "Delete failed" /\ account # None
  /\ files # <<>> /\ files = ActiveIndex

\* C9: a displayed share link is the link issued for the selected file.
C9_LinkOfSelected ==
  (selectedFile # Nil /\ shareLink # NoLink)
    => shareLink = ShareUrl(selectedFile.fileName)

\* C10: a failed createPublicLink leaves no file selected together with a
\* link issued for another file, and the failure of an older request leaves
\* the selection made by a newer pending request in place.
C10_FailureKeepsNewer ==
  [][\A k \in 1..Len(shares) :
       (ShareFail(k) /\ shares[k].live)
       => /\ C9_LinkOfSelected'
          /\ (\E j \in (k + 1)..Len(shares) : shares[j].live)
               => selectedFile' = selectedFile]_vars

\* C11: every download in flight of the mounted gallery has its file marked
\* in progress, whatever other downloads start or settle meanwhile.
C11_InProgressPerFile ==
  \A k \in 1..Len(downloads) :
    downloads[k].live => downloading = downloads[k].file.fileId

\* C12: a download, started, resolved or rejected, leaves the index, the
\* listing and the preview map as they are, starts no reload and dispatches
\* no event.
C12_DownloadFrame ==
  [][(\/ \E i \in 1..Len(files) : DownloadClick(i)
      \/ \E k \in 1..Len(downloads) : DownloadSucceed(k) \/ DownloadFail(k))
     => UNCHANGED <<store, listVars, castVars, balPending>>]_vars

C12_Witness ==
  /\ saved # {} /\ lastAlert = "Download failed"
  /\ account # None /\ ActiveIndex # <<>>
  /\ \E f \in FileIds : Live(imagePreviews[f])

\* C13: a rejected login or createAccount, whatever the error code, leaves
\* the persisted account and the account in memory as they were and shows
\* the error; with nothing persisted before, nothing is persisted after.
C13_FailedAuthNoEffect ==
  [][\A code \in AuthCodes :
       LoginFail(code) => /\ persisted' = persisted /\ account' = account
                          /\ listeners' = listeners
                          /\ authError' = AuthMessage(code)]_vars

C13_Witness ==
  /\ authError = AuthMessage("INVALID_CREDENTIALS")
  /\ login = Nil /\ account = None /\ persisted = None

\* C14: a submit whose username or password fails validation ends with the
\* validation error, issues no call and leaves the persisted account alone;
\* a call is issued only by a submit whose username and password both passed.
C14_ValidationGuardsCall ==
  [][/\ \A u \in Users, vu \in BOOLEAN, vp \in BOOLEAN, c \in BOOLEAN :
          (AuthSubmit(u, vu, vp, c) /\ ~(vu /\ vp))
          => /\ login' = login /\ authLoading' = authLoading
             /\ persisted' = persisted /\ account' = account
             /\ authError' \in {"username", "password"}
     /\ (login' # Nil /\ login' # login)
          => \E u \in Users, c \in BOOLEAN : AuthSubmit(u, TRUE, TRUE, c)]_vars

C14_Witness ==
  /\ authError = "password" /\ login = Nil /\ ~authLoading
  /\ account = None /\ persisted = None /\ ~appLoading

\* C15: logout removes the persisted account and the account in memory; a
\* page load shows exactly what is persisted, so none after a logout; every
\* successful login or createAccount replaces the persisted account by the
\* new one.
C15_LogoutClearsSession ==
  [][/\ Logout => (persisted' = None /\ account' = None)
     /\ LoginSucceed => (persisted' = login.user /\ account' = login.user)
     /\ AppMount => (account' = persisted /\ persisted' = persisted)]_vars

\* the page reloaded after a session with an upload was logged out
C15_Witness ==
  /\ appLoading /\ persisted = None /\ account = None
  /\ broadcasts > 0 /\ store[UploadKey("alice")] # <<>>

\* C16: a dispatched 'fileUploaded' calls every listener registered at that
\* moment, in registration order (the balance observer, then the file-list
\* observer, while an account is logged in), and each does its full reload:
\* one more getBalance call, and the listing read from storage and shown.
C16_AllObserversInOrder ==
  [][broadcasts' = broadcasts + 1
     => /\ invoked' = listeners
        /\ account # None => listeners = <<BalanceObserver, GalleryObserver>>
        /\ BalanceObserver \in Range(listeners) => balPending' = balPending + 1
        /\ GalleryObserver \in Range(listeners)
             => files' = listFiles(store', ForAccountKey(account))]_vars

C16_Witness ==
  /\ broadcasts > 0 /\ account # None
  /\ invoked = <<BalanceObserver, GalleryObserver>>
  /\ balance = Bal /\ files # <<>> /\ files = ActiveIndex

\* the records of a listing carry pairwise different file ids
DistinctIds(list) ==
  \A i, j \in 1..Len(list) : list[i].fileId = list[j].fileId => i = j

\* C17: when a reload of the mounted gallery over a listing (of pairwise
\* different file ids) ends, the preview map it installs has a live handle
\* for every image record whose download succeeded and no entry for every
\* image record whose download failed, and no error was raised.
C17_PreviewIsolation ==
  [][\A k \in 1..Len(reloads), ok \in BOOLEAN :
       (/\ ReloadResume(k, ok)
        /\ Len(reloads') < Len(reloads)
        /\ reloads[k].live /\ DistinctIds(reloads[k].list))
       => LET t == reloads[k]
              got == IF ok THEN t.fetched \cup {t.i} ELSE t.fetched
          IN  /\ lastAlert' = lastAlert
              /\ \A j \in 1..Len(t.list) :
                    isImageFile(t.list[j].fileName)
                    => IF j \in got THEN Live(imagePreviews'[t.list[j].fileId])
                       ELSE imagePreviews'[t.list[j].fileId] = 0]_vars

\* a listing of two images was reloaded: one preview came, the other failed
C17_Witness ==
  /\ account # None /\ reloads = <<>> /\ Len(files) = 2 /\ DistinctIds(files)
  /\ \A i \in 1..2 : isImageFile(files[i].fileName)
  /\ Live(imagePreviews[files[1].fileId])
  /\ imagePreviews[files[2].fileId] = 0

\* C18: when the first upload of an account with an empty index is an image
\* and succeeds, the index the gallery lists holds exactly that record, the
\* gallery shows it and has its preview download in flight; and when that
\* download succeeds the gallery holds a live handle under the record's id.
C18_FirstImageUpload ==
  [][/\ \A k \in 1..Len(uploads), f \in FileIds :
          (/\ UploadSucceed(k, f)
           /\ uploads[k].live /\ isImageFile(uploads[k].name)
           /\ store[UploadKey(uploads[k].acct)] = <<>>)
          => LET rec == UploadResult(uploads[k], f)
             IN  /\ listFiles(store', ForAccountKey(account)) = <<rec>>
                 /\ files' = <<rec>>
                 /\ \E r \in Range(reloads') : r.live /\ r.list = <<rec>> /\ r.i = 1
     /\ \A k \in 1..Len(reloads) :
          (/\ ReloadResume(k, TRUE)
           /\ reloads[k].live /\ Len(reloads[k].list) = 1)
          => Live(imagePreviews'[reloads[k].list[1].fileId])]_vars

C18_Witness ==
  /\ account = "alice" /\ broadcasts = 1
  /\ Len(files) = 1 /\ isImageFile(files[1].fileName)
  /\ ActiveIndex = files /\ store[UploadKey("alice")] = files
  /\ Live(imagePreviews[files[1].fileId])

\* the records added by a log of calls and not removed by a later call of
\* the log, in the order they were added
Surviving(log) ==
  LET keep == {p \in 1..Len(log) :
                 /\ log[p].op = "add"
                 /\ \A q \in (p + 1)..Len(log) :
                      ~(log[q].op = "remove" /\ log[q].fileId = log[p].fileId)}
      F[p \in 0..Len(log)] ==
        IF p = 0 THEN <<>>
        ELSE IF p \in keep THEN Append(F[p - 1], log[p].rec) ELSE F[p - 1]
  IN  F[Len(log)]

\* C19: after any sequence of addFile and removeFile calls on one index,
\* listFiles returns exactly the added records no later call removed, in the
\* order they were added; removing an id the index does not hold changes
\* nothing.
C19_SetSemantics ==
  listFiles(store, IndexKey) = Surviving(opLog)

\* added 1, added 2, removed 1, added 1 again: 2 now precedes 1
C19_Witness ==
  /\ Len(opLog) = 4 /\ opLog[3].op = "remove" /\ opLog[4].op = "add"
  /\ Len(listFiles(store, IndexKey)) = 2
  /\ listFiles(store, IndexKey)[2] = opLog[4].rec
  /\ listFiles(store, IndexKey)[1] = opLog[2].rec

C22_DurableIndex ==
  [][/\ Restart => UNCHANGED <<store, persisted>>
     /\ (AppMount /\ persisted # None)
          => /\ store' = store
             /\ files' = store[UploadKey(persisted)]
             /\ files' = listFiles(store, ForAccountKey(persisted))]_vars

\* reloaded after an upload: everything in memory is new, the listing is back
C22_Witness ==
  /\ account = "alice" /\ ~appLoading /\ broadcasts > 0
  /\ uploadedFile = Nil /\ ~uploading /\ invoked # <<>> /\ balPending = 1
  /\ files # <<>> /\ files = store[UploadKey("alice")]
  /\ login = Nil /\ authError = "" /\ lastAlert = ""

\* AccountCard renders "Failed to load" when no balance is held and none is
\* being loaded
BalanceErrorShown == ~loadingBalance /\ balance = None

\* C23: every failed remote call other than a preview download ends with its
\* error reported: a rejected login or createAccount with the auth error, a
\* rejected upload with the upload error, a rejected download, delete or
\* share with its alert, a rejected balance query with the balance card's
\* error.
C23_FailuresSurfaced ==
  [][/\ \A code \in AuthCodes : LoginFail(code) => authError' # ""
     /\ \A k \in 1..Len(uploads) : (UploadFail(k) /\ uploads[k].live) => upError' # ""
     /\ \A k \in 1..Len(downloads) : DownloadFail(k) => lastAlert' = "Download failed"
     /\ \A k \in 1..Len(deletes) : DeleteFail(k) => lastAlert' = "Delete failed"
     /\ \A k \in 1..Len(shares) : ShareFail(k) => lastAlert' = "Failed to create share link"
     /\ BalanceFail => BalanceErrorShown']_vars

\* the name has a dot, and what follows its last dot is, in lower case, one
\* of the image extensions
HasImageExtension(name) ==
  \E d \in 1..Len(name) :
    /\ name[d] = "."
    /\ \A e \in (d + 1)..Len(name) : name[e] # "."
    /\ [i \in 1..(Len(name) - d) |-> ToLower(name[d + i])] \in ImageExtensions

\* C24: a preview download is in flight only for a record whose name has an
\* image extension, and every listed record whose name has an image
\* extension is one the gallery treats as an image; a name without a dot
\* has no extension.
C24_PreviewIffImageExtension ==
  /\ \A k \in 1..Len(reloads) :
       HasImageExtension(reloads[k].list[reloads[k].i].fileName)
  /\ \A i \in 1..Len(files) :
       isImageFile(files[i].fileName) <=> HasImageExtension(files[i].fileName)

\* C25: the map a reload of the mounted gallery installs when it ends holds
\* nothing of an earlier generation: each entry is a handle this reload
\* created (none that the map installed before or another running reload
\* holds), under the fileId of an image record of this reload's listing
\* whose download succeeded; a listing without images installs the empty map.
C25_MapRebuilt ==
  [][/\ \A k \in 1..Len(reloads), ok \in BOOLEAN :
          (/\ ReloadResume(k, ok)
           /\ Len(reloads') < Len(reloads) /\ reloads[k].live)
          => LET t == reloads[k]
                 got == IF ok THEN t.fetched \cup {t.i} ELSE t.fetched
                 mine == Held(t.previews) \cup (IF ok THEN {nextHandle} ELSE {})
             IN  \A f \in FileIds :
                   imagePreviews'[f] # 0
                   => /\ \E j \in got : t.list[j].fileId = f /\ isImageFile(t.list[j].fileName)
                      /\ imagePreviews'[f] \in mine
                      /\ imagePreviews'[f] \notin Held(imagePreviews)
                      /\ \A m \in 1..Len(reloads) :
                           m # k => imagePreviews'[f] \notin Held(reloads[m].previews)
     /\ (files' # files /\ account' = account /\ account # None
         /\ \A i \in 1..Len(files') : ~isImageFile(files'[i].fileName))
          => imagePreviews' = NoPreviews]_vars

\* a second generation is installed: handle 1 of the first is not in it
C25_Witness ==
  /\ account # None /\ reloads = <<>> /\ Len(files) = 2 /\ nextHandle = 3
  /\ imagePreviews[files[2].fileId] = 2
  /\ 1 \notin Held(imagePreviews)

\* C26: a rejected getBalance keeps the balance shown before and touches
\* neither the listing, the previews, the reloads in flight nor the index;
\* a preview download, failed or not, touches nothing of the balance
\* observer; and a broadcast starts both reloads whatever state the other
\* observer is in.
C26_ObserversIndependent ==
  [][/\ BalanceFail => (balance' = balance /\ UNCHANGED <<store, listVars>>)
     /\ \A k \in 1..Len(reloads), ok \in BOOLEAN :
          ReloadResume(k, ok) => UNCHANGED balVars
     /\ (broadcasts' = broadcasts + 1 /\ account # None)
          => /\ balPending' = balPending + 1
             /\ files' = listFiles(store', ForAccountKey(account))]_vars

\* every getBalance failed, yet the listing and a preview are there
C26_Witness ==
  /\ account # None /\ broadcasts > 0 /\ balPending = 0 /\ BalanceErrorShown
  /\ files # <<>> /\ reloads = <<>>
  /\ \E f \in FileIds : Live(imagePreviews[f])

\* C27: an index changes only in the step in which a remote call has
\* resolved: a record enters an index only as the result of the upload that
\* just succeeded, into that upload's account's index, and a record leaves
\* an index only when the delete of its fileId has just succeeded.
C27_IndexFollowsRemote ==
  [][\A key \in Keys :
       /\ store'[key] # store[key]
            => \/ \E k \in 1..Len(uploads), f \in FileIds :
                    UploadSucceed(k, f) /\ key = UploadKey(uploads[k].acct)
               \/ \E k \in 1..Len(deletes) :
                    DeleteSucceed(k) /\ key = ForAccountKey(deletes[k].acct)
       /\ Len(store'[key]) > Len(store[key])
            => \E k \in 1..Len(uploads), f \in FileIds :
                 /\ UploadSucceed(k, f) /\ key = UploadKey(uploads[k].acct)
                 /\ store'[key] = Append(store[key], UploadResult(uploads[k], f))
       /\ \A r \in Range(store[key]) \ Range(store'[key]) :
            \E k \in 1..Len(deletes) :
              /\ DeleteSucceed(k) /\ key = ForAccountKey(deletes[k].acct)
              /\ deletes[k].file.fileId = r.fileId]_vars

\* one upload went through, another was rejected, a delete was rejected: the
\* index holds the one record
C27_Witness ==
  /\ upError = "Upload failed" /\ lastAlert = "Delete failed"
  /\ uploads = <<>> /\ deletes = <<>> /\ broadcasts = 1
  /\ \E u \in Users : store[UploadKey(u)] = <<lastBroadcast>>

\* C28: once no reload of the mounted gallery is running, the installed
\* preview map is the one built by the reload started last: that reload read
\* the listing now shown, so the map has entries only under fileIds of image
\* records of that listing.
C28_LatestReloadWins ==
  (account # None /\ \A k \in 1..Len(reloads) : ~reloads[k].live)
  => \A f \in FileIds :
       imagePreviews[f] # 0
       => \E i \in 1..Len(files) :
            files[i].fileId = f /\ isImageFile(files[i].fileName)

\* C29: while an account is logged in, the list the gallery shows is the
\* listing of that account's index, same records in the same order (an
\* upload or a delete mutates the index and starts the reload in one step,
\* so no state lies between the two).
C29_ListShowsIndex ==
  account # None => files = ActiveIndex

\* C30: once the initial load of the saved account has finished, the active
\* account and the saved account agree: both absent or both the same
\* account, over logins, account creations, logouts and page reloads.
C30_AccountMatchesSaved ==
  ~appLoading => account = persisted

\* the load has finished and bob is active and saved, after an upload was
\* broadcast in an earlier login or document
C30_Witness ==
  ~appLoading /\ account = "bob" /\ persisted = "bob" /\ balPending = 1
  /\ broadcasts > 0 /\ uploadedFile = Nil /\ ~uploading

\* the step appends to index key the result of an upload of u that logout
\* left in flight
StaleUploadLands(u, key) ==
  \E k \in 1..Len(uploads), f \in FileIds :
    /\ ~uploads[k].live /\ uploads[k].acct = u
    /\ store' = addFile(store, key, UploadResult(uploads[k], f))

\* the step removes from index key the record of a delete of u that logout
\* left in flight
StaleDeleteLands(u, key) ==
  \E k \in 1..Len(deletes) :
    /\ ~deletes[k].live /\ deletes[k].acct = u
    /\ store' = removeFile(store, key, deletes[k].file.fileId)

\* C31 as stated: from the logout of an account up to its next login (every
\* step on which it is not the active account before or after), each index
\* of the account stays as it was or gains the record of an upload that was
\* in flight at logout; the list shown at the login is that index.
C31_LogoutKeepsIndex ==
  [][\A u \in Users :
       (account # u \/ account' # u)
       => /\ \A p \in Prefixes :
               \/ store'[<<p, u>>] = store[<<p, u>>]
               \/ StaleUploadLands(u, <<p, u>>)
          /\ account' = u => files' = listFiles(store', ForAccountKey(u))]_vars

\* C31, amended: from the logout of an account up to its next login, each
\* index of the account stays as it was, gains the record of an upload or
\* loses the record of a delete that was in flight at logout; the logout
\* step itself changes no index, and the list shown at the login is that
\* index.
C31_LogoutKeepsIndexButInFlight ==
  [][\A u \in Users :
       (account # u \/ account' # u)
       => /\ \A p \in Prefixes :
               \/ store'[<<p, u>>] = store[<<p, u>>]
               \/ StaleUploadLands(u, <<p, u>>)
               \/ StaleDeleteLands(u, <<p, u>>)
          /\ (account = u /\ account' = None) => store' = store
          /\ account' = u => files' = listFiles(store', ForAccountKey(u))]_vars

\* alice is logged in again after a logout that left an upload of hers in
\* flight, and the list shows the record her index held at the logout
C31_Witness ==
  /\ account = "alice" /\ files # <<>> /\ files = ActiveIndex
  /\ \E k \in 1..Len(uploads) : ~uploads[k].live /\ uploads[k].acct = "alice"

\* the loadFiles runs of unmounted galleries that are still suspended
StaleReloads(rl) == {k \in 1..Len(rl) : ~rl[k].live}

\* C32: observers are called only while subscribed. Logout leaves no
\* listener on the window, so an event dispatched while nobody is logged in
\* (by an upload that logout left in flight) calls no listener and starts no
\* balance call and no reload; the observers of a session are subscribed once
\* each, so an event dispatched in a session starts one balance call and no
\* reload of an unmounted gallery.
C32_OnlyWhileSubscribed ==
  [][/\ account' = None => listeners' = <<>>
     /\ account' # None => listeners' = <<BalanceObserver, GalleryObserver>>
     /\ broadcasts' = broadcasts + 1
          => /\ invoked' = listeners
             /\ Cardinality(StaleReloads(reloads')) = Cardinality(StaleReloads(reloads))
             /\ IF account = None
                THEN UNCHANGED <<balVars, listVars>>
                ELSE balPending' = balPending + 1 /\ Len(reloads') <= Len(reloads) + 1]_vars

\* nobody is logged in and the latest event, dispatched after the logout by
\* an upload started before it, called no listener
C32_Witness ==
  /\ account = None /\ ~appLoading /\ listeners = <<>>
  /\ broadcasts > 0 /\ invoked = <<>> /\ lastBroadcast # Nil
  /\ balPending = 0 /\ files = <<>>

\* the client.uploadFile calls in flight that the mounted UploadCard started
LiveUploads == {k \in 1..Len(uploads) : uploads[k].live}

\* C33: the mounted upload component has at most one upload in flight, and
\* its uploading flag is true exactly while it has one: from the start of the
\* upload until the remote call resolves or rejects, false after either.
C33_OneUploadInFlight ==
  /\ Cardinality(LiveUploads) <= 1
  /\ uploading <=> LiveUploads # {}

\* an upload of the mounted component is in flight next to one that an
\* earlier session left in flight
C33_Witness ==
  /\ account # None /\ uploading
  /\ Cardinality(LiveUploads) = 1 /\ Len(uploads) = 2
====
